---- MODULE Spec2Model ----
(***************************************************************************)
(* Model of device_registry/__init__.py: a shelve-backed key/value store,  *)
(* the Repository class over it, the two decoration functions and the      *)
(* flask_restful resources DeviceList, Device, RoomList and Room.           *)
(*                                                                         *)
(* Python dicts are functions from field names to values.  The shelf holds *)
(* pickled objects; a pickled dict is the set of its (field, value) pairs. *)
(* Keys are strings, built by string concatenation as in the code.         *)
(***************************************************************************)
EXTENDS Integers, Sequences, FiniteSets, TLC

VARIABLES
  shelf,    \* the shelf file: key -> pickled object
  before,   \* the shelf as it was when the last request or call started
  req,      \* the last request or call
  resp,     \* its response or result
  posting,  \* a POST /devices in flight: its position and local variables
  deleting, \* a DELETE /room in flight: its position and local variables
  g,        \* flask.g of the application context of the request being served
  ctx       \* that application context: its phase and the shelf handles it opened

vars == <<shelf, before, req, resp, posting, deleting, g, ctx>>

raceVars == <<posting, deleting>>

scopeVars == <<g, ctx>>

----------------------------------------------------------------------------
(* Bounds of the model *)

MaxIds == 2

MaxNames == 1

MaxKeys == 3

MaxRepoKeys == 2

MaxCalls == 3

IdPool == <<"a", "room:a", "b", "device:a">>

NamePool == <<"n1", "n2", "n3">>

Identifiers == {IdPool[i] : i \in 1..MaxIds}

Names == {NamePool[i] : i \in 1..MaxNames}

DeviceFields == {"identifier", "name", "device_type", "controller_name", "room_identifier"}

RoomFields == {"identifier", "name"}

\* Well-formed device forms
DeviceBodies ==
  {[f \in DeviceFields |->
      CASE f = "identifier" -> i
        [] f = "name" -> n
        [] f = "device_type" -> "switch"
        [] f = "controller_name" -> "ctl"
        [] f = "room_identifier" -> r] : i \in Identifiers, n \in Names, r \in Identifiers}

\* Well-formed room forms
RoomBodies ==
  {[f \in RoomFields |-> IF f = "identifier" THEN i ELSE n] : i \in Identifiers, n \in Names}

\* What a client may send to either POST endpoint
Bodies == DeviceBodies \cup RoomBodies

\* What a client sends to POST /rooms: a room form, or a form with fields
\* the parser of RoomList.post does not declare
RoomPosts == RoomBodies \cup {b \in DeviceBodies : b["room_identifier"] = b["identifier"]}

----------------------------------------------------------------------------
(* Python values *)

\* Python's None; a dict no stored or returned object is equal to
None == [f \in {"None"} |-> "None"]

\* A dict read: obj[key] raises KeyError when key is missing
HasKey(obj, key) == key \in DOMAIN obj

\* del obj[key]
Del(obj, key) == [f \in DOMAIN obj \ {key} |-> obj[f]]

\* obj[key] = value
Put(obj, key, value) == [f \in DOMAIN obj \cup {key} |-> IF f = key THEN value ELSE obj[f]]

\* prefix in key: the prefix anywhere in the key, not only at its start
startswith_anywhere(key, prefix) ==
  \E at \in 1..Len(key) :
    /\ at + Len(prefix) - 1 <= Len(key)
    /\ SubSeq(key, at, at + Len(prefix) - 1) = prefix

\* key.startswith(prefix)
startswith(key, prefix) ==
  /\ Len(key) >= Len(prefix)
  /\ SubSeq(key, 1, Len(prefix)) = prefix

\* Result of a call that may raise
Return(v) == [raise |-> "", value |-> v]

Raise(e) == [raise |-> e]

----------------------------------------------------------------------------
(* The shelf: shelve.open(app.config['DATABASE']) *)

EmptyShelf == [k \in {} |-> {}]

\* shelve pickles the value on every write ...
pickle(obj) == {<<f, obj[f]>> : f \in DOMAIN obj}

\* ... and unpickles a fresh object on every read
unpickle(bytes) ==
  [f \in {p[1] : p \in bytes} |-> (CHOOSE p \in bytes : p[1] = f)[2]]

\* self.shelf[key]
ShelfGet(s, key) == unpickle(s[key])

\* a store that appends instead of replacing: the old record stays under
\* a second key
ShelfSet_append(s, key, obj) ==
  IF key \in DOMAIN s
  THEN [k \in DOMAIN s \cup {key \o "'"} |-> IF k = key THEN pickle(obj) ELSE
                                               IF k \in DOMAIN s THEN s[k] ELSE s[key]]
  ELSE [k \in DOMAIN s \cup {key} |-> IF k = key THEN pickle(obj) ELSE s[k]]

\* self.shelf[key] = obj
ShelfSet(s, key, obj) ==
  [k \in DOMAIN s \cup {key} |-> IF k = key THEN pickle(obj) ELSE s[k]]

\* del self.shelf[key]
ShelfDel(s, key) == [k \in DOMAIN s \ {key} |-> s[k]]

\* The orderings of a set of keys
Orderings(S) ==
  {o \in [1..Cardinality(S) -> S] : \A i, j \in 1..Cardinality(S) : i # j => o[i] # o[j]}

\* list(self.shelf.keys()): the keys in some order the dbm chooses.  Every
\* reader of the listing filters it by one prefix and keeps the listed order
\* (find_all), so only the order inside each collection reaches a result:
\* the listings are taken with the keys of a collection next to each other,
\* in every order inside the collection.
KeyOrders(s) ==
  {r \o d : r \in Orderings({k \in DOMAIN s : startswith(k, "room:")}),
            d \in Orderings({k \in DOMAIN s : ~startswith(k, "room:")})}

\* a shelf opened with writeback=True keeps every object it handed out
ShelfCache_writeback(objs) == objs

\* The objects the shelf keeps alive to write back when it is closed:
\* none, because the shelf is opened without writeback
ShelfCache(objs) == [k \in {} |-> None]

\* db.close() at the end of the request
close_connection(db, objs) ==
  LET cache == ShelfCache(objs)
  IN  [k \in DOMAIN db \cup DOMAIN cache |->
         IF k \in DOMAIN cache THEN pickle(cache[k]) ELSE db[k]]

----------------------------------------------------------------------------
(* class Repository *)

\* Repository.__init__: self.prefix = prefix + ':'
Repository(prefix) == prefix \o ":"

get_device_repo == Repository("device")

get_room_repo == Repository("room")

find_all(s, prefix, keys) ==
  LET mine == SelectSeq(keys, LAMBDA key : startswith(key, prefix))
  IN  [i \in 1..Len(mine) |-> ShelfGet(s, mine[i])]

\* find that reads the shelf without looking whether the key is there
find_unchecked(s, prefix, identifier) ==
  LET key == prefix \o identifier
  IN  IF ~(key \in DOMAIN s) THEN Raise("KeyError") ELSE ShelfGet(s, key)

find(s, prefix, identifier) ==
  LET key == prefix \o identifier
  IN  IF ~(key \in DOMAIN s) THEN None ELSE ShelfGet(s, key)

\* find_by that stops at the first match
find_by_first(s, prefix, keys, key, value) ==
  LET all == find_all(s, prefix, keys)
      hits == SelectSeq(all, LAMBDA obj : HasKey(obj, key) /\ obj[key] = value)
  IN  IF \E i \in 1..Len(all) : ~HasKey(all[i], key)
      THEN Raise("KeyError")
      ELSE Return(IF hits = <<>> THEN <<>> ELSE <<hits[1]>>)

\* find_by that passes over the objects without the field
find_by_skip_missing(s, prefix, keys, key, value) ==
  Return(SelectSeq(find_all(s, prefix, keys), LAMBDA obj : HasKey(obj, key) /\ obj[key] = value))

find_by(s, prefix, keys, key, value) ==
  LET all == find_all(s, prefix, keys)
  IN  IF \E i \in 1..Len(all) : ~HasKey(all[i], key)
      THEN Raise("KeyError")
      ELSE Return(SelectSeq(all, LAMBDA obj : obj[key] = value))

\* save that forgets the collection prefix
save_unprefixed(s, prefix, obj) ==
  IF ~HasKey(obj, "identifier")
  THEN [raise |-> "KeyError", shelf |-> s]
  ELSE [raise |-> "", shelf |-> ShelfSet(s, obj["identifier"], obj)]

\* save that builds the key from the name of the object
save_by_name(s, prefix, obj) ==
  IF ~HasKey(obj, "name")
  THEN [raise |-> "KeyError", shelf |-> s]
  ELSE [raise |-> "", shelf |-> ShelfSet(s, prefix \o obj["name"], obj)]

save(s, prefix, obj) ==
  IF ~HasKey(obj, "identifier")
  THEN [raise |-> "KeyError", shelf |-> s]
  ELSE [raise |-> "", shelf |-> ShelfSet(s, prefix \o obj["identifier"], obj)]

\* delete that lets a missing key pass
delete_ignore_missing(s, prefix, identifier) ==
  [raise |-> "", shelf |-> ShelfDel(s, prefix \o identifier)]

delete(s, prefix, identifier) ==
  IF ~((prefix \o identifier) \in DOMAIN s)
  THEN [raise |-> "KeyError", shelf |-> s]
  ELSE [raise |-> "", shelf |-> ShelfDel(s, prefix \o identifier)]

----------------------------------------------------------------------------
(* Decorators *)

\* decorate_with_room without the del of room_identifier
decorate_with_room_keep_fk(s, room_repository, device) ==
  IF ~HasKey(device, "room_identifier")
  THEN Raise("KeyError")
  ELSE Return(Put(device, "room", find(s, room_repository, device["room_identifier"])))

\* decorate_with_room that reads the identifier of the room it found
decorate_with_room_strict(s, room_repository, device) ==
  IF ~HasKey(device, "room_identifier")
  THEN Raise("KeyError")
  ELSE IF find(s, room_repository, device["room_identifier"]) = None
  THEN Raise("TypeError")
  ELSE Return(Del(Put(device, "room", find(s, room_repository, device["room_identifier"])),
                  "room_identifier"))

decorate_with_room(s, room_repository, device) ==
  IF ~HasKey(device, "room_identifier")
  THEN Raise("KeyError")
  ELSE Return(Del(Put(device, "room", find(s, room_repository, device["room_identifier"])),
                  "room_identifier"))

\* decorate_with_devices without the loop that strips room_identifier
decorate_with_devices_unstripped(s, device_repository, keys, room) ==
  IF ~HasKey(room, "identifier")
  THEN Raise("KeyError")
  ELSE LET devices == find_by(s, device_repository, keys, "room_identifier", room["identifier"])
       IN  IF devices.raise # "" THEN devices ELSE Return(Put(room, "devices", devices.value))

decorate_with_devices(s, device_repository, keys, room) ==
  IF ~HasKey(room, "identifier")
  THEN Raise("KeyError")
  ELSE LET devices == find_by(s, device_repository, keys, "room_identifier", room["identifier"])
       IN  IF devices.raise # ""
           THEN devices
           ELSE Return(Put(room, "devices",
                           [i \in 1..Len(devices.value) |->
                              Del(devices.value[i], "room_identifier")]))

----------------------------------------------------------------------------
(* The HTTP resources *)

\* reqparse.RequestParser with every argument required: a missing argument
\* aborts the request with 400; arguments that were not declared are dropped
parse_args(body, required) ==
  IF required \subseteq DOMAIN body
  THEN Return([f \in required |-> body[f]])
  ELSE Raise("BadRequest")

BadRequest == [status |-> 400, message |-> "Missing required parameter"]

\* An exception that leaves a resource method
InternalServerError == [status |-> 500, message |-> "Internal Server Error"]

\* The objects of a list, under the keys they were read from
Objs(prefix, objects) ==
  [k \in {prefix \o objects[i]["identifier"] : i \in 1..Len(objects)} |->
     objects[CHOOSE i \in 1..Len(objects) : prefix \o objects[i]["identifier"] = k]]

\* What a resource method leaves behind: the shelf, the response and the
\* objects it read from the shelf and changed
Outcome(s, r, o) == [shelf |-> s, resp |-> r, objs |-> o]

NoObjs == [k \in {} |-> None]

DeviceList_get(s, keys) ==
  LET devices == find_all(s, get_device_repo, keys)
      decorated == [i \in 1..Len(devices) |->
                      decorate_with_room(s, get_room_repo, devices[i])]
  IN  IF \E i \in 1..Len(devices) : decorated[i].raise # ""
      THEN Outcome(s, InternalServerError, NoObjs)
      ELSE LET data == [i \in 1..Len(devices) |-> decorated[i].value]
           IN  Outcome(s, [status |-> 200, message |-> "Retrieved all devices", data |-> data],
                       Objs(get_device_repo, data))

\* DeviceList.post that saves the device before it looks for the room
DeviceList_post_save_first(s, body) ==
  LET args == parse_args(body, DeviceFields)
  IN  IF args.raise # ""
      THEN Outcome(s, BadRequest, NoObjs)
      ELSE LET saved == save(s, get_device_repo, args.value).shelf
           IN  IF find(saved, get_room_repo, args.value["room_identifier"]) = None
               THEN Outcome(saved, [status |-> 400, message |-> "Room does not exist"], NoObjs)
               ELSE Outcome(saved,
                            [status |-> 201, message |-> "Device registered",
                             data |-> decorate_with_room(saved, get_room_repo,
                                        find(saved, get_device_repo, args.value["identifier"])).value],
                            NoObjs)

\* DeviceList.post without the look for the room
DeviceList_post_unchecked(s, body) ==
  LET args == parse_args(body, DeviceFields)
  IN  IF args.raise # ""
      THEN Outcome(s, BadRequest, NoObjs)
      ELSE LET saved == save(s, get_device_repo, args.value).shelf
           IN  Outcome(saved,
                       [status |-> 201, message |-> "Device registered",
                        data |-> decorate_with_room(saved, get_room_repo,
                                   find(saved, get_device_repo, args.value["identifier"])).value],
                       NoObjs)

DeviceList_post(s, body) ==
  LET device_repo == get_device_repo
      room_repo == get_room_repo
      args == parse_args(body, DeviceFields)
  IN  IF args.raise # ""
      THEN Outcome(s, BadRequest, NoObjs)
      ELSE IF find(s, room_repo, args.value["room_identifier"]) = None
      THEN Outcome(s, [status |-> 400, message |-> "Room does not exist"], NoObjs)
      ELSE LET saved == save(s, device_repo, args.value).shelf
               device == find(saved, device_repo, args.value["identifier"])
               decorated == decorate_with_room(saved, room_repo, device)
           IN  Outcome(saved,
                       [status |-> 201, message |-> "Device registered", data |-> decorated.value],
                       Objs(device_repo, <<decorated.value>>))

Device_get(s, identifier) ==
  LET device == find(s, get_device_repo, identifier)
  IN  IF device = None
      THEN Outcome(s, [status |-> 404, message |-> "Device not found"], NoObjs)
      ELSE LET decorated == decorate_with_room(s, get_room_repo, device)
           IN  IF decorated.raise # ""
               THEN Outcome(s, InternalServerError, NoObjs)
               ELSE Outcome(s, [status |-> 200, message |-> "Device found", data |-> decorated.value],
                            Objs(get_device_repo, <<decorated.value>>))

\* Device.delete without the look for the device
Device_delete_unchecked(s, identifier) ==
  LET deleted == delete(s, get_device_repo, identifier)
  IN  IF deleted.raise # ""
      THEN Outcome(deleted.shelf, InternalServerError, NoObjs)
      ELSE Outcome(deleted.shelf, [status |-> 204, message |-> ""], NoObjs)

Device_delete(s, identifier) ==
  LET device_repo == get_device_repo
      device == find(s, device_repo, identifier)
  IN  IF device = None
      THEN Outcome(s, [status |-> 404, message |-> "Device not found"], NoObjs)
      ELSE LET deleted == delete(s, device_repo, identifier)
           IN  IF deleted.raise # ""
               THEN Outcome(deleted.shelf, InternalServerError, NoObjs)
               ELSE Outcome(deleted.shelf, [status |-> 204, message |-> ""], NoObjs)

RoomList_get(s, keys) ==
  LET rooms == find_all(s, get_room_repo, keys)
      decorated == [i \in 1..Len(rooms) |->
                      decorate_with_devices(s, get_device_repo, keys, rooms[i])]
  IN  IF \E i \in 1..Len(rooms) : decorated[i].raise # ""
      THEN Outcome(s, InternalServerError, NoObjs)
      ELSE LET data == [i \in 1..Len(rooms) |-> decorated[i].value]
           IN  Outcome(s, [status |-> 200, message |-> "Retrieved all rooms", data |-> data],
                       Objs(get_room_repo, data))

\* keys: the order in which the shelf lists its keys once the room is saved
RoomList_post(s, body, keys) ==
  LET device_repo == get_device_repo
      room_repo == get_room_repo
      args == parse_args(body, RoomFields)
  IN  IF args.raise # ""
      THEN Outcome(s, BadRequest, NoObjs)
      ELSE LET saved == save(s, room_repo, args.value).shelf
               room == find(saved, room_repo, args.value["identifier"])
               decorated == decorate_with_devices(saved, device_repo, keys, room)
           IN  IF decorated.raise # ""
               THEN Outcome(saved, InternalServerError, NoObjs)
               ELSE Outcome(saved,
                            [status |-> 201, message |-> "Room registered", data |-> decorated.value],
                            Objs(room_repo, <<decorated.value>>))

Room_get(s, identifier, keys) ==
  LET room == find(s, get_room_repo, identifier)
  IN  IF room = None
      THEN Outcome(s, [status |-> 404, message |-> "Room not found"], NoObjs)
      ELSE LET decorated == decorate_with_devices(s, get_device_repo, keys, room)
           IN  IF decorated.raise # ""
               THEN Outcome(s, InternalServerError, NoObjs)
               ELSE Outcome(s, [status |-> 200, message |-> "Room found", data |-> decorated.value],
                            Objs(get_room_repo, <<decorated.value>>))

\* Room.delete without the look for devices of the room
Room_delete_unguarded(s, identifier, keys) ==
  IF find(s, get_room_repo, identifier) = None
  THEN Outcome(s, [status |-> 404, message |-> "Room not found"], NoObjs)
  ELSE Outcome(delete(s, get_room_repo, identifier).shelf, [status |-> 204, message |-> ""], NoObjs)

Room_delete(s, identifier, keys) ==
  LET device_repo == get_device_repo
      room_repo == get_room_repo
      room == find(s, room_repo, identifier)
  IN  IF room = None
      THEN Outcome(s, [status |-> 404, message |-> "Room not found"], NoObjs)
      ELSE LET devices == find_by(s, device_repo, keys, "room_identifier", identifier)
           IN  IF devices.raise # ""
               THEN Outcome(s, InternalServerError, NoObjs)
               ELSE IF devices.value # <<>>
               THEN Outcome(s, [status |-> 400,
                                message |-> "Cannot delete a room that has devices"], NoObjs)
               ELSE LET deleted == delete(s, room_repo, identifier)
                    IN  IF deleted.raise # ""
                        THEN Outcome(deleted.shelf, InternalServerError, NoObjs)
                        ELSE Outcome(deleted.shelf, [status |-> 204, message |-> ""], NoObjs)

----------------------------------------------------------------------------
(* Requests served one after the other *)

\* No request of the kind is in flight; status is the answer to the last one
Ended(status) == [pc |-> "idle", status |-> status]

Idle == Ended(0)

\* flask.g of a fresh application context: no attribute is set.  A shelf
\* handle is a positive number; 0 stands for the attribute that is not there.
EmptyG == [_database |-> 0, _device_repository |-> 0, _room_repository |-> 0]

Init ==
  /\ shelf = EmptyShelf
  /\ before = EmptyShelf
  /\ req = [op |-> "none"]
  /\ resp = [status |-> 0, message |-> ""]
  /\ posting = Idle
  /\ deleting = Idle
  /\ g = EmptyG
  /\ ctx = [phase |-> "idle", exit |-> "", open |-> {}, opens |-> 0, calls |-> 0, ops |-> 0, stale |-> FALSE]

\* The end of a request: the response goes out and the shelf is closed
Respond(outcome) ==
  /\ before' = shelf
  /\ resp' = outcome.resp
  /\ shelf' = close_connection(outcome.shelf, outcome.objs)
  /\ UNCHANGED <<raceVars, scopeVars>>

\* The store of the model has room for max records
HasRoomFor(s, key, max) == key \in DOMAIN s \/ Cardinality(DOMAIN s) < max

GetDevices ==
  \E keys \in KeyOrders(shelf) :
    /\ req' = [op |-> "GET /devices"]
    /\ Respond(DeviceList_get(shelf, keys))

PostDevice ==
  \E body \in Bodies :
    /\ HasRoomFor(shelf, get_device_repo \o body["identifier"], MaxKeys)
    /\ req' = [op |-> "POST /devices", body |-> body]
    /\ Respond(DeviceList_post(shelf, body))

GetDevice ==
  \E identifier \in Identifiers :
    /\ req' = [op |-> "GET /device", identifier |-> identifier]
    /\ Respond(Device_get(shelf, identifier))

DeleteDevice ==
  \E identifier \in Identifiers :
    /\ req' = [op |-> "DELETE /device", identifier |-> identifier]
    /\ Respond(Device_delete(shelf, identifier))

GetRooms ==
  \E keys \in KeyOrders(shelf) :
    /\ req' = [op |-> "GET /rooms"]
    /\ Respond(RoomList_get(shelf, keys))

PostRoom ==
  \E body \in RoomPosts :
    /\ HasRoomFor(shelf, get_room_repo \o body["identifier"], MaxKeys)
    /\ req' = [op |-> "POST /rooms", body |-> body]
    /\ \E keys \in KeyOrders(RoomList_post(shelf, body, <<>>).shelf) :
         Respond(RoomList_post(shelf, body, keys))

GetRoom ==
  \E identifier \in Identifiers, keys \in KeyOrders(shelf) :
    /\ req' = [op |-> "GET /room", identifier |-> identifier]
    /\ Respond(Room_get(shelf, identifier, keys))

DeleteRoom ==
  \E identifier \in Identifiers, keys \in KeyOrders(shelf) :
    /\ req' = [op |-> "DELETE /room", identifier |-> identifier]
    /\ Respond(Room_delete(shelf, identifier, keys))

Next ==
  \/ GetDevices
  \/ PostDevice
  \/ GetDevice
  \/ DeleteDevice
  \/ GetRooms
  \/ PostRoom
  \/ GetRoom
  \/ DeleteRoom

Spec == Init /\ [][Next]_vars

----------------------------------------------------------------------------
(* The Repository used directly: calls on the two repositories of one shelf *)

Prefixes == {get_device_repo, get_room_repo}

\* The objects saved through a repository: device forms and room forms,
\* which lack room_identifier, of one name
Objects == {obj \in Bodies : obj["name"] = NamePool[1]}

QueryFields == {"identifier", "room_identifier"}

CallSave ==
  \E prefix \in Prefixes, obj \in Objects :
    /\ HasRoomFor(shelf, prefix \o obj["identifier"], MaxRepoKeys)
    /\ req' = [op |-> "save", prefix |-> prefix, obj |-> obj]
    /\ before' = shelf
    /\ resp' = [raise |-> save(shelf, prefix, obj).raise]
    /\ shelf' = save(shelf, prefix, obj).shelf
    /\ UNCHANGED <<raceVars, scopeVars>>

CallDelete ==
  \E prefix \in Prefixes, identifier \in Identifiers :
    /\ req' = [op |-> "delete", prefix |-> prefix, identifier |-> identifier]
    /\ before' = shelf
    /\ resp' = [raise |-> delete(shelf, prefix, identifier).raise]
    /\ shelf' = delete(shelf, prefix, identifier).shelf
    /\ UNCHANGED <<raceVars, scopeVars>>

CallFind ==
  \E prefix \in Prefixes, identifier \in Identifiers :
    /\ req' = [op |-> "find", prefix |-> prefix, identifier |-> identifier]
    /\ resp' = Return(find(shelf, prefix, identifier))
    /\ before' = shelf
    /\ UNCHANGED <<shelf, raceVars, scopeVars>>

CallFindAll ==
  \E prefix \in Prefixes, keys \in KeyOrders(shelf) :
    /\ req' = [op |-> "find_all", prefix |-> prefix]
    /\ resp' = Return(find_all(shelf, prefix, keys))
    /\ before' = shelf
    /\ UNCHANGED <<shelf, raceVars, scopeVars>>

CallFindBy ==
  \E prefix \in Prefixes, keys \in KeyOrders(shelf), key \in QueryFields, value \in Identifiers :
    /\ req' = [op |-> "find_by", prefix |-> prefix, key |-> key, value |-> value]
    /\ resp' = find_by(shelf, prefix, keys, key, value)
    /\ before' = shelf
    /\ UNCHANGED <<shelf, raceVars, scopeVars>>

CallDecorateWithRoom ==
  \E device \in Objects :
    /\ req' = [op |-> "decorate_with_room", device |-> device]
    /\ resp' = decorate_with_room(shelf, get_room_repo, device)
    /\ before' = shelf
    /\ UNCHANGED <<shelf, raceVars, scopeVars>>

RepoNext ==
  \/ CallSave
  \/ CallDelete
  \/ CallFind
  \/ CallFindAll
  \/ CallFindBy
  \/ CallDecorateWithRoom

RepoSpec == Init /\ [][RepoNext]_vars

----------------------------------------------------------------------------
(* Two requests in flight on one store: a POST /devices and a DELETE /room, *)
(* each a sequence of store operations that the other's may come between.   *)
(* One store operation is one step, and its effect is seen by the other     *)
(* request at once.                                                         *)

\* DeviceList.post up to its look for the room, the check taken for passed
post_find_room_unchecked(s, body) ==
  LET args == parse_args(body, DeviceFields)
  IN  IF args.raise # ""
      THEN Ended(BadRequest.status)
      ELSE [pc |-> "save", args |-> args.value,
            room |-> find(s, get_room_repo, args.value["room_identifier"])]

\* DeviceList.post up to its look for the room: the position and the local
\* variables args and room the request goes on with, or its answer
post_find_room(s, body) ==
  LET room_repo == get_room_repo
      args == parse_args(body, DeviceFields)
  IN  IF args.raise # ""
      THEN Ended(BadRequest.status)
      ELSE LET room == find(s, room_repo, args.value["room_identifier"])
           IN  IF room = None
               THEN Ended(400)
               ELSE [pc |-> "save", args |-> args.value, room |-> room]

\* Room.delete up to its look for the room
delete_find_room(s, identifier) ==
  LET room == find(s, get_room_repo, identifier)
  IN  IF room = None
      THEN Ended(404)
      ELSE [pc |-> "find_by", identifier |-> identifier, room |-> room]

\* Room.delete, its look for the devices of the room
delete_find_devices(s, identifier, room, keys) ==
  LET devices == find_by(s, get_device_repo, keys, "room_identifier", identifier)
  IN  IF devices.raise # ""
      THEN Ended(InternalServerError.status)
      ELSE IF devices.value # <<>>
      THEN Ended(400)
      ELSE [pc |-> "delete", identifier |-> identifier, room |-> room,
            devices |-> devices.value]

\* The forms of the POST /devices in flight: one device, any room
RacePosts ==
  {body \in DeviceBodies : body["identifier"] = IdPool[1] /\ body["name"] = NamePool[1]}

\* A POST /rooms served whole between two steps of the requests in flight;
\* its answer is not kept
RegisterRoom ==
  \E body \in RoomPosts :
    /\ body["name"] = NamePool[1]
    /\ HasRoomFor(shelf, get_room_repo \o body["identifier"], MaxKeys)
    /\ \E keys \in KeyOrders(RoomList_post(shelf, body, <<>>).shelf) :
         LET outcome == RoomList_post(shelf, body, keys)
         IN  shelf' = close_connection(outcome.shelf, outcome.objs)
    /\ UNCHANGED <<before, req, resp, raceVars, scopeVars>>

\* A POST /devices arrives, parses its form and looks for the room
PostFindRoom ==
  \E body \in RacePosts :
    /\ posting.pc = "idle"
    /\ HasRoomFor(shelf, get_device_repo \o body["identifier"], MaxKeys)
    /\ posting' = post_find_room(shelf, body)
    /\ UNCHANGED <<shelf, before, req, resp, deleting, scopeVars>>

\* The POST /devices saves the device.  room_gone is history: whether the
\* room the request had found was still stored when the device was saved.
PostSave ==
  /\ posting.pc = "save"
  /\ HasRoomFor(shelf, get_device_repo \o posting.args["identifier"], MaxKeys)
  /\ shelf' = save(shelf, get_device_repo, posting.args).shelf
  /\ posting' = [pc |-> "find", args |-> posting.args, room |-> posting.room,
                 room_gone |-> (get_room_repo \o posting.args["room_identifier"]) \notin DOMAIN shelf]
  /\ UNCHANGED <<before, req, resp, deleting, scopeVars>>

\* The POST /devices reads the device back, decorates it and answers; the
\* teardown closes its handle
PostReturn ==
  /\ posting.pc = "find"
  /\ LET device == find(shelf, get_device_repo, posting.args["identifier"])
         decorated == decorate_with_room(shelf, get_room_repo, device)
     IN  IF decorated.raise # ""
         THEN /\ posting' = Ended(InternalServerError.status)
              /\ shelf' = close_connection(shelf, NoObjs)
         ELSE /\ posting' = Ended(201)
              /\ shelf' = close_connection(shelf, Objs(get_device_repo, <<decorated.value>>))
  /\ UNCHANGED <<before, req, resp, deleting, scopeVars>>

\* A DELETE /room/<identifier> arrives and looks for the room
DeleteFindRoom ==
  \E identifier \in Identifiers :
    /\ deleting.pc = "idle"
    /\ deleting' = delete_find_room(shelf, identifier)
    /\ UNCHANGED <<shelf, before, req, resp, posting, scopeVars>>

\* The DELETE /room looks for the devices of the room
DeleteFindDevices ==
  \E keys \in KeyOrders(shelf) :
    /\ deleting.pc = "find_by"
    /\ deleting' = delete_find_devices(shelf, deleting.identifier, deleting.room, keys)
    /\ UNCHANGED <<shelf, before, req, resp, posting, scopeVars>>

\* The DELETE /room deletes the room and answers
DeleteRoomRecord ==
  /\ deleting.pc = "delete"
  /\ LET deleted == delete(shelf, get_room_repo, deleting.identifier)
     IN  /\ shelf' = close_connection(deleted.shelf, NoObjs)
         /\ deleting' = IF deleted.raise # ""
                        THEN Ended(InternalServerError.status)
                        ELSE Ended(204)
  /\ UNCHANGED <<before, req, resp, posting, scopeVars>>

RaceNext ==
  \/ RegisterRoom
  \/ PostFindRoom
  \/ PostSave
  \/ PostReturn
  \/ DeleteFindRoom
  \/ DeleteFindDevices
  \/ DeleteRoomRecord

RaceSpec == Init /\ [][RaceNext]_vars

----------------------------------------------------------------------------
(* The application context of one request: g, get_db, the two repository *)
(* getters and the teardown function close_connection                     *)

\* shelve.open(app.config['DATABASE']): a handle no open handle is using
NewHandle(open) == CHOOSE n \in 1..(Cardinality(open) + 1) : n \notin open

\* A getter leaves g and the context as they are and returns `value`
Got(gv, c, value) == [g |-> gv, ctx |-> c, value |-> value]

get_db_uncached(gv, c) ==
  LET db == NewHandle(c.open)
  IN  Got(gv, [c EXCEPT !.open = @ \cup {db}, !.opens = @ + 1], db)

\* get_db(): the handle kept in g._database, opened on the first call
get_db(gv, c) ==
  IF gv._database = 0
  THEN LET db == NewHandle(c.open)
       IN  Got([gv EXCEPT !._database = db],
               [c EXCEPT !.open = @ \cup {db}, !.opens = @ + 1], db)
  ELSE Got(gv, c, gv._database)

\* get_device_repo() within an application context: the Repository kept in
\* g._device_repository, built over get_db() on the first call.  The value is
\* the handle the Repository holds as self.shelf.
get_device_repo_g(gv, c) ==
  IF gv._device_repository = 0
  THEN LET db == get_db(gv, c)
       IN  Got([db.g EXCEPT !._device_repository = db.value], db.ctx, db.value)
  ELSE Got(gv, c, gv._device_repository)

\* get_room_repo() within an application context, likewise
get_room_repo_g(gv, c) ==
  IF gv._room_repository = 0
  THEN LET db == get_db(gv, c)
       IN  Got([db.g EXCEPT !._room_repository = db.value], db.ctx, db.value)
  ELSE Got(gv, c, gv._room_repository)

\* close_connection(exception): the handles left open once the teardown
\* function has closed g._database, if there is one
teardown_appcontext(gv, open) ==
  IF gv._database # 0 THEN open \ {gv._database} ELSE open

\* The handles of the repositories the handler has obtained so far
Obtained(gv) == {gv._device_repository, gv._room_repository} \ {0}

\* flask pushes an application context for a request: g is fresh
BeginRequest ==
  /\ ctx.phase \in {"idle", "done"}
  /\ g' = EmptyG
  /\ ctx' = [ctx EXCEPT !.phase = "handler", !.exit = "", !.opens = 0, !.calls = 0, !.ops = 0]
  /\ UNCHANGED <<shelf, before, req, resp, raceVars>>

\* The handler got `got` from a getter
Called(got) ==
  /\ ctx.phase = "handler"
  /\ ctx.calls < MaxCalls
  /\ g' = got.g
  /\ ctx' = [got.ctx EXCEPT !.calls = @ + 1]
  /\ UNCHANGED <<shelf, before, req, resp, raceVars>>

CallGetDb ==
  /\ Called(get_db(g, ctx))

CallGetDeviceRepo ==
  /\ Called(get_device_repo_g(g, ctx))

CallGetRoomRepo ==
  /\ Called(get_room_repo_g(g, ctx))

\* The handler calls a method of a repository it obtained: an operation on
\* the handle the repository holds
StoreOperation ==
  /\ ctx.phase = "handler"
  /\ ctx.ops < MaxCalls
  /\ \E db \in Obtained(g) :
       ctx' = [ctx EXCEPT !.ops = @ + 1, !.stale = @ \/ db \notin ctx.open]
  /\ UNCHANGED <<g, shelf, before, req, resp, raceVars>>

\* The handler returns a response
HandlerReturns ==
  /\ ctx.phase = "handler"
  /\ ctx' = [ctx EXCEPT !.phase = "teardown", !.exit = "returned"]
  /\ UNCHANGED <<g, shelf, before, req, resp, raceVars>>

\* The handler lets an exception escape
HandlerRaises ==
  /\ ctx.phase = "handler"
  /\ ctx' = [ctx EXCEPT !.phase = "teardown", !.exit = "raised"]
  /\ UNCHANGED <<g, shelf, before, req, resp, raceVars>>

\* flask pops the application context and runs the teardown functions,
\* whichever way the handler ended
Teardown ==
  /\ ctx.phase = "teardown"
  /\ ctx' = [ctx EXCEPT !.phase = "done", !.open = teardown_appcontext(g, @)]
  /\ UNCHANGED <<g, shelf, before, req, resp, raceVars>>

ScopeNext ==
  \/ BeginRequest
  \/ CallGetDb
  \/ CallGetDeviceRepo
  \/ CallGetRoomRepo
  \/ StoreOperation
  \/ HandlerReturns
  \/ HandlerRaises
  \/ Teardown

ScopeSpec == Init /\ [][ScopeNext]_vars

----------------------------------------------------------------------------
(* Properties *)

\* The keys of the records of a collection, read off the shelf
Collection(s, name) == {k \in DOMAIN s : \E i \in Identifiers : k = name \o ":" \o i}

\* The stored record under key k has field f with value v
StoredField(s, k, f, v) == <<f, v>> \in s[k]

\* Some stored device names room `identifier` as its room
RoomHasDevices(s, identifier) ==
  \E k \in Collection(s, "device") : StoredField(s, k, "room_identifier", identifier)

\* s without key k, everything else as it was
Without(s, k) == [j \in DOMAIN s \ {k} |-> s[j]]

\* C1: a POST /devices whose room_identifier names no stored room is answered
\* 400 'Room does not exist' and the shelf is what it was before the request.
C1_UnknownRoomRejected ==
  (/\ req.op = "POST /devices"
   /\ DeviceFields \subseteq DOMAIN req.body
   /\ ("room:" \o req.body["room_identifier"]) \notin DOMAIN before)
  => (/\ resp.status = 400
      /\ resp.message = "Room does not exist"
      /\ shelf = before)

\* C1 witness: such a request was rejected while a device with the posted
\* identifier was stored
C1_Witness ==
  /\ req.op = "POST /devices"
  /\ DeviceFields \subseteq DOMAIN req.body
  /\ ("room:" \o req.body["room_identifier"]) \notin DOMAIN before
  /\ ("device:" \o req.body["identifier"]) \in DOMAIN before
  /\ resp.status = 400

\* C2: DELETE of a stored room is answered 400 and changes nothing while a
\* stored device names the room, and is answered 204 and removes exactly the
\* room once no stored device names it; DELETE of a stored device is answered
\* 204 and removes exactly that device.
C2_RoomDeletionGuard ==
  /\ (req.op = "DELETE /room" /\ ("room:" \o req.identifier) \in DOMAIN before)
     => IF RoomHasDevices(before, req.identifier)
        THEN resp.status = 400 /\ shelf = before
        ELSE resp.status = 204 /\ shelf = Without(before, "room:" \o req.identifier)
  /\ (req.op = "DELETE /device" /\ ("device:" \o req.identifier) \in DOMAIN before)
     => (resp.status = 204 /\ shelf = Without(before, "device:" \o req.identifier))

\* C2 witness: the deletion of a room that has a device was refused
C2_Witness ==
  /\ req.op = "DELETE /room"
  /\ ("room:" \o req.identifier) \in DOMAIN before
  /\ RoomHasDevices(before, req.identifier)
  /\ resp.status = 400

\* C3: right after save(r) on a repository, find(r.identifier) on the same
\* repository returns a record equal to r.
C3_SaveFindRoundTrip ==
  (req.op = "save" /\ resp.raise = "")
  => find(shelf, req.prefix, req.obj["identifier"]) = req.obj

\* C3 witness: a record was saved into a store that held another record
C3_Witness ==
  /\ req.op = "save"
  /\ resp.raise = ""
  /\ before # EmptyShelf
  /\ shelf # before

\* The repository that is not `prefix`
OtherRepo(prefix) == CHOOSE q \in Prefixes : q # prefix

\* The records find_all returns, as a set
FindAllSet(s, prefix, keys) == {find_all(s, prefix, keys)[i] : i \in 1..Len(find_all(s, prefix, keys))}

\* C4: a save or delete through one repository leaves what the other
\* repository finds as it was, also under the same identifier: find of every
\* identifier and the records and length of find_all are unchanged, and
\* find_all of the other repository holds only records stored under its own keys.
C4_PrefixIsolation ==
  (req.op \in {"save", "delete"})
  => LET q == OtherRepo(req.prefix)
     IN  /\ \A i \in Identifiers : find(shelf, q, i) = find(before, q, i)
         /\ \A ks \in KeyOrders(shelf), kb \in KeyOrders(before) :
              /\ FindAllSet(shelf, q, ks) = FindAllSet(before, q, kb)
              /\ Len(find_all(shelf, q, ks)) = Len(find_all(before, q, kb))
              /\ Len(find_all(shelf, q, ks)) + Len(find_all(shelf, req.prefix, ks))
                   = Cardinality(DOMAIN shelf)

\* C4 witness: a record was saved under an identifier that the other
\* collection holds too, with a different record
C4_Witness ==
  /\ req.op = "save"
  /\ resp.raise = ""
  /\ (OtherRepo(req.prefix) \o req.obj["identifier"]) \in DOMAIN shelf
  /\ shelf[OtherRepo(req.prefix) \o req.obj["identifier"]] # pickle(req.obj)
  /\ shelf # before

\* C5: a save under an identifier the collection already holds replaces the
\* record: find_all has as many records as before, at most one per
\* identifier, and find returns the record just saved.
C5_SaveOverwrites ==
  (/\ req.op = "save"
   /\ resp.raise = ""
   /\ (req.prefix \o req.obj["identifier"]) \in DOMAIN before)
  => /\ \A ks \in KeyOrders(shelf), kb \in KeyOrders(before) :
          LET all == find_all(shelf, req.prefix, ks)
          IN  /\ Len(all) = Len(find_all(before, req.prefix, kb))
              /\ \A i, j \in 1..Len(all) :
                   all[i]["identifier"] = all[j]["identifier"] => i = j
     /\ find(shelf, req.prefix, req.obj["identifier"]) = req.obj

\* C5 witness: a record was saved over a different record of the same identifier
C5_Witness ==
  /\ req.op = "save"
  /\ resp.raise = ""
  /\ (req.prefix \o req.obj["identifier"]) \in DOMAIN before
  /\ before[req.prefix \o req.obj["identifier"]] # pickle(req.obj)

\* C6: after a delete that succeeded, find of the identifier is None and
\* find_all holds no record of that identifier; a delete of an identifier the
\* repository does not hold raises KeyError and leaves the shelf alone, and
\* nothing but a save brings a key back.
C6_DeleteThenFind ==
  /\ (req.op = "delete" /\ resp.raise = "")
     => /\ find(shelf, req.prefix, req.identifier) = None
        /\ \A ks \in KeyOrders(shelf) :
             \A i \in 1..Len(find_all(shelf, req.prefix, ks)) :
               find_all(shelf, req.prefix, ks)[i]["identifier"] # req.identifier
        /\ delete(shelf, req.prefix, req.identifier).raise = "KeyError"
  /\ (req.op = "delete" /\ (req.prefix \o req.identifier) \notin DOMAIN before)
     => (resp.raise = "KeyError" /\ shelf = before)
  /\ (req.op \in {"delete", "find", "find_all", "find_by"})
     => DOMAIN shelf \subseteq DOMAIN before

\* C6 witness: a delete succeeded and left other records in the store
C6_Witness ==
  /\ req.op = "delete"
  /\ resp.raise = ""
  /\ (req.prefix \o req.identifier) \in DOMAIN before
  /\ shelf # EmptyShelf

\* The keys of the collection whose record has field `key` equal to `value`
Matching(s, prefix, key, value) ==
  {k \in DOMAIN s : (\E i \in Identifiers : k = prefix \o i) /\ StoredField(s, k, key, value)}

\* Every record of the collection has field `key`
AllHaveField(s, prefix, key) ==
  \A k \in DOMAIN s :
    (\E i \in Identifiers : k = prefix \o i) => \E p \in s[k] : p[1] = key

\* C7: when every record of the collection has the field, find_by returns
\* each record of the collection whose field equals the value exactly once,
\* and nothing else.
C7_FindByExact ==
  (req.op = "find_by" /\ AllHaveField(shelf, req.prefix, req.key))
  => /\ resp.raise = ""
     /\ Len(resp.value) = Cardinality(Matching(shelf, req.prefix, req.key, req.value))
     /\ \A k \in Matching(shelf, req.prefix, req.key, req.value) :
          Cardinality({i \in 1..Len(resp.value) : pickle(resp.value[i]) = shelf[k]}) = 1

\* C7 witness: find_by returned a record and left another stored record out
C7_Witness ==
  /\ req.op = "find_by"
  /\ AllHaveField(shelf, req.prefix, req.key)
  /\ resp.raise = ""
  /\ Len(resp.value) >= 1
  /\ Cardinality(DOMAIN shelf) > Len(resp.value)

GetOps == {"GET /devices", "GET /device", "GET /rooms", "GET /room"}

\* The fields of the record stored under key k
StoredFields(s, k) == {p[1] : p \in s[k]}

\* C8: decoration does not reach the shelf.  A GET leaves the shelf as it
\* was; a successful POST changes only the posted key, to the parsed form;
\* every stored device keeps room_identifier and has no room field, and no
\* stored room has a devices field.
C8_DecorationLeavesStore ==
  /\ req.op \in GetOps => shelf = before
  /\ (req.op = "POST /devices" /\ resp.status = 201)
     => /\ DOMAIN shelf = DOMAIN before \cup {"device:" \o req.body["identifier"]}
        /\ \A k \in DOMAIN shelf :
             shelf[k] = IF k = "device:" \o req.body["identifier"]
                        THEN {<<f, req.body[f]>> : f \in DeviceFields}
                        ELSE before[k]
  /\ (req.op = "POST /rooms" /\ resp.status = 201)
     => /\ DOMAIN shelf = DOMAIN before \cup {"room:" \o req.body["identifier"]}
        /\ \A k \in DOMAIN shelf :
             shelf[k] = IF k = "room:" \o req.body["identifier"]
                        THEN {<<f, req.body[f]>> : f \in RoomFields}
                        ELSE before[k]
  /\ \A k \in Collection(shelf, "device") : StoredFields(shelf, k) = DeviceFields
  /\ \A k \in Collection(shelf, "room") : StoredFields(shelf, k) = RoomFields

\* C8 witness: GET /devices returned a decorated device
C8_Witness ==
  /\ req.op = "GET /devices"
  /\ resp.status = 200
  /\ Len(resp.data) >= 1
  /\ "room" \in DOMAIN resp.data[1]

\* The keys of the stored devices that name room `identifier`
DevicesOf(s, identifier) ==
  {k \in Collection(s, "device") : StoredField(s, k, "room_identifier", identifier)}

\* C9: GET /device/<id> of a stored device D1 whose room R1 is stored
\* returns D1 with room equal to the stored R1 and without room_identifier;
\* GET /room/<id> of a stored room R1 with exactly one device D1 returns R1
\* with devices equal to the list of D1 without room_identifier.
C9_DecorationRoundTrip ==
  /\ (/\ req.op = "GET /device"
      /\ ("device:" \o req.identifier) \in DOMAIN before
      /\ \E r \in Identifiers :
           /\ StoredField(before, "device:" \o req.identifier, "room_identifier", r)
           /\ ("room:" \o r) \in DOMAIN before)
     => /\ resp.status = 200
        /\ DOMAIN resp.data = (DeviceFields \ {"room_identifier"}) \cup {"room"}
        /\ \A f \in DeviceFields \ {"room_identifier"} :
             StoredField(before, "device:" \o req.identifier, f, resp.data[f])
        /\ \E r \in Identifiers :
             /\ StoredField(before, "device:" \o req.identifier, "room_identifier", r)
             /\ pickle(resp.data["room"]) = before["room:" \o r]
  /\ (/\ req.op = "GET /room"
      /\ ("room:" \o req.identifier) \in DOMAIN before
      /\ Cardinality(DevicesOf(before, req.identifier)) = 1)
     => /\ resp.status = 200
        /\ DOMAIN resp.data = RoomFields \cup {"devices"}
        /\ \A f \in RoomFields : StoredField(before, "room:" \o req.identifier, f, resp.data[f])
        /\ Len(resp.data["devices"]) = 1
        /\ \A k \in DevicesOf(before, req.identifier) :
             pickle(resp.data["devices"][1]) = before[k] \ {<<"room_identifier", req.identifier>>}

\* C9 witness: GET /room/<id> returned a room with its one device
C9_Witness ==
  /\ req.op = "GET /room"
  /\ resp.status = 200
  /\ Cardinality(DevicesOf(before, req.identifier)) = 1
  /\ Cardinality(Collection(before, "device")) + Cardinality(Collection(before, "room")) = 3

\* A device as returned: room instead of room_identifier
DeviceView(d) ==
  /\ "room_identifier" \notin DOMAIN d
  /\ "room" \in DOMAIN d
  /\ "room_identifier" \notin DOMAIN d["room"]

\* A room as returned: a devices list whose devices have no room_identifier
RoomView(r) ==
  /\ "room_identifier" \notin DOMAIN r
  /\ "devices" \in DOMAIN r
  /\ \A i \in 1..Len(r["devices"]) : "room_identifier" \notin DOMAIN r["devices"][i]

\* C10: no object of a successful response has a room_identifier field at
\* any level: each returned device has a room field, each returned room a
\* devices list of devices without room_identifier.
C10_NoForeignKeyReturned ==
  (resp.status \in {200, 201})
  => /\ req.op = "GET /devices" => \A i \in 1..Len(resp.data) : DeviceView(resp.data[i])
     /\ req.op \in {"POST /devices", "GET /device"} => DeviceView(resp.data)
     /\ req.op = "GET /rooms" => \A i \in 1..Len(resp.data) : RoomView(resp.data[i])
     /\ req.op \in {"POST /rooms", "GET /room"} => RoomView(resp.data)

\* C10 witness: GET /rooms returned a room with a device in it
C10_Witness ==
  /\ req.op = "GET /rooms"
  /\ resp.status = 200
  /\ \E i \in 1..Len(resp.data) : Len(resp.data[i]["devices"]) >= 1

\* C11: no request changes the record stored for a device: a device that is
\* stored before and after a request has the same record.
C11_NeverUpdatedInPlace ==
  \A k \in Collection(before, "device") \cap DOMAIN shelf : shelf[k] = before[k]

\* C12: GET of a device or room that is not stored is answered 404 and
\* leaves the shelf alone, and find of an identifier without a record is None.
C12_NotFoundIsAValue ==
  /\ (req.op = "GET /device" /\ ("device:" \o req.identifier) \notin DOMAIN before)
     => (resp.status = 404 /\ shelf = before)
  /\ (req.op = "GET /room" /\ ("room:" \o req.identifier) \notin DOMAIN before)
     => (resp.status = 404 /\ shelf = before)
  /\ \A name \in {"device", "room"}, i \in Identifiers :
       (name \o ":" \o i) \notin DOMAIN shelf => find(shelf, name \o ":", i) = None

\* C12 witness: a device that is not stored was asked for while its
\* identifier is stored as a room
C12_Witness ==
  /\ req.op = "GET /device"
  /\ ("device:" \o req.identifier) \notin DOMAIN before
  /\ ("room:" \o req.identifier) \in DOMAIN before
  /\ resp.status = 404

\* A stored device names a room that is not stored
Dangling(s) ==
  \E k \in Collection(s, "device"), r \in Identifiers :
    StoredField(s, k, "room_identifier", r) /\ ("room:" \o r) \notin DOMAIN s

\* C14: with requests served one after the other from an empty store, every
\* stored device names a stored room.
C14_ReferentialIntegrity == ~Dangling(shelf)

\* C14 witness: a room was deleted while a device of another room stays stored
C14_Witness ==
  /\ req.op = "DELETE /room"
  /\ resp.status = 204
  /\ Collection(shelf, "device") # {}
  /\ Collection(shelf, "room") # {}

\* C18: DELETE of a device or room that is not stored is answered 404 and
\* leaves the shelf alone; DELETE of a stored device is answered 204 and of a
\* stored room 204 or 400: the KeyError of Repository.delete never leaves
\* a handler.
C18_DeleteHandlersNeverFail ==
  /\ req.op = "DELETE /device"
     => IF ("device:" \o req.identifier) \in DOMAIN before
        THEN resp.status = 204
        ELSE resp.status = 404 /\ shelf = before
  /\ req.op = "DELETE /room"
     => IF ("room:" \o req.identifier) \in DOMAIN before
        THEN resp.status \in {204, 400}
        ELSE resp.status = 404 /\ shelf = before

\* C18 witness: a device that is not stored was deleted from a store that
\* holds other records
C18_Witness ==
  /\ req.op = "DELETE /device"
  /\ ("device:" \o req.identifier) \notin DOMAIN before
  /\ before # EmptyShelf
  /\ resp.status = 404

\* C15: find_by raises KeyError whenever some record of the collection lacks
\* the field, whatever the value and whatever else matches, and leaves the
\* shelf alone.
C15_FindByMissingField ==
  (req.op = "find_by" /\ ~AllHaveField(before, req.prefix, req.key))
  => (resp.raise = "KeyError" /\ shelf = before)

\* C15 witness: find_by raised although a record of the collection matches
C15_Witness ==
  /\ req.op = "find_by"
  /\ ~AllHaveField(before, req.prefix, req.key)
  /\ Matching(before, req.prefix, req.key, req.value) # {}
  /\ resp.raise = "KeyError"

\* C16: decorate_with_room of a device whose room_identifier names no stored
\* room returns normally: room is None, room_identifier is gone and the other
\* fields are as they were.
C16_DecorateUnknownRoom ==
  (/\ req.op = "decorate_with_room"
   /\ "room_identifier" \in DOMAIN req.device
   /\ ("room:" \o req.device["room_identifier"]) \notin DOMAIN before)
  => /\ resp.raise = ""
     /\ DOMAIN resp.value = (DOMAIN req.device \ {"room_identifier"}) \cup {"room"}
     /\ resp.value["room"] = None
     /\ \A f \in DOMAIN req.device \ {"room_identifier"} : resp.value[f] = req.device[f]

\* C16 witness: a device was decorated whose room is not stored while
\* another room is
C16_Witness ==
  /\ req.op = "decorate_with_room"
  /\ "room_identifier" \in DOMAIN req.device
  /\ ("room:" \o req.device["room_identifier"]) \notin DOMAIN before
  /\ Collection(before, "room") # {}
  /\ resp.raise = ""

\* C19: every key of the shelf is a prefix followed by the identifier field
\* of the record stored under it; find(id) returns a record exactly when
\* find_all holds a record of identifier id, and that record has identifier id.
C19_KeyRecordConsistency ==
  /\ \A k \in DOMAIN shelf :
       \E name \in {"device", "room"}, i \in Identifiers :
         k = name \o ":" \o i /\ StoredField(shelf, k, "identifier", i)
  /\ \A prefix \in Prefixes, i \in Identifiers, ks \in KeyOrders(shelf) :
       LET all == find_all(shelf, prefix, ks)
       IN  /\ (find(shelf, prefix, i) # None)
                <=> (\E n \in 1..Len(all) : all[n]["identifier"] = i)
           /\ find(shelf, prefix, i) # None => find(shelf, prefix, i)["identifier"] = i

\* C19 witness: the store holds a device whose identifier reads like the key
\* of a room that is stored too
C19_Witness ==
  /\ req.op = "save"
  /\ "device:room:a" \in DOMAIN shelf
  /\ "room:a" \in DOMAIN shelf

\* The room the POST /devices in flight names
PostedRoom == get_room_repo \o posting.args["room_identifier"]

\* The POST /devices in flight found its room, the room has been deleted
\* since, and this step is its save
SaveAfterRoomDeleted ==
  /\ posting.pc = "save"
  /\ posting'.pc = "find"
  /\ posting.room # None
  /\ PostedRoom \notin DOMAIN shelf
  /\ (get_device_repo \o posting.args["identifier"]) \in DOMAIN shelf'

\* The DELETE /room in flight found no device of its room, a device of the
\* room has been saved since, and this step is its delete
DeleteAfterDeviceSaved ==
  /\ deleting.pc = "delete"
  /\ deleting'.pc = "idle"
  /\ deleting.devices = <<>>
  /\ RoomHasDevices(shelf, deleting.identifier)
  /\ (get_room_repo \o deleting.identifier) \notin DOMAIN shelf'

\* C13: with a POST /devices and a DELETE /room interleaved, the store comes
\* to hold a device whose room is not stored, and every step that brings
\* this about is the write of a request whose own check had passed before the
\* other request wrote: the save of a device whose room was deleted after the
\* look for it, or the delete of a room a device of which was saved after the
\* look for its devices.
C13_CheckThenWriteRace ==
  [][(~Dangling(shelf) /\ Dangling(shelf'))
       => (SaveAfterRoomDeleted \/ DeleteAfterDeviceSaved)]_vars

\* C13 witness: the POST /devices found its room, the DELETE /room of that
\* room was answered 204, and then the device was saved: the stored device
\* names a room that is not stored.
C13_Witness ==
  /\ posting.pc = "find"
  /\ posting.room # None
  /\ posting.room_gone
  /\ deleting = Ended(204)
  /\ StoredField(shelf, get_device_repo \o posting.args["identifier"],
                 "room_identifier", posting.args["room_identifier"])
  /\ PostedRoom \notin DOMAIN shelf

\* C17: within one request the store is opened at most once however often
\* get_db, get_device_repo and get_room_repo are called, both repositories
\* hold that one handle, no operation reaches a handle that is closed, and
\* once the request is over, by a response or by an exception, no handle is
\* left open.
C17_ScopedAcquisition ==
  /\ ctx.opens <= 1
  /\ Obtained(g) \subseteq {g._database} \ {0}
  /\ Obtained(g) \subseteq ctx.open \/ ctx.phase = "done"
  /\ ~ctx.stale
  /\ ctx.phase = "done" => ctx.open = {}

\* C17 witness: a request that obtained both repositories, called a getter
\* again and used the store ended with an exception, and the teardown ran.
C17_Witness ==
  /\ ctx.phase = "done"
  /\ ctx.exit = "raised"
  /\ ctx.opens = 1
  /\ ctx.calls = MaxCalls
  /\ ctx.ops > 0
  /\ g._device_repository # 0
  /\ g._room_repository # 0

====
